---------------------------- MODULE Spec2Model ----------------------------
(***************************************************************************)
(* A model of src/app.py: the ImageConverter window (PyQt widgets and      *)
(* slots), the ConversionWorker thread it starts, the ThreadPoolExecutor   *)
(* tasks of its batch, and the file system the tasks share.                *)
(*                                                                         *)
(* File names are records [stem, ext]; a stem is a sequence of string      *)
(* tokens that the real name joins with "_", so that the name the          *)
(* collision loop formats from base "a" and counter 1 is the name of an    *)
(* input called "a_1".  Paths are records [dir, name].                     *)
(***************************************************************************)
EXTENDS Integers, Sequences, FiniteSets, TLC

(***************************************************************************)
(* Bounds of the model.                                                    *)
(***************************************************************************)
\* The longest list of files a dialog returns.
MaxFiles == 2
\* The largest multiprocessing.cpu_count() of the machines considered.
MaxHardwareThreads == 2
\* The largest collision counter of the files present before a lone task.
MaxSuffix == 3
\* The longest list of nodes of a stored workflow.
MaxNodes == 3

(***************************************************************************)
(* Program constants.                                                      *)
(***************************************************************************)
\* quality_slider.setValue(87)
DefaultQuality == 87
\* quality_slider.setRange(1, 100)
MinQuality == 1
MaxQuality == 100

(***************************************************************************)
(* The environment: the image files the dialogs can return, the output     *)
(* directory the user can pick, the slider positions the user drags to,    *)
(* and the files that may lie in the target directories beforehand.        *)
(***************************************************************************)
Name(stem, ext) == [stem |-> stem, ext |-> ext]
Path(dir, name) == [dir |-> dir, name |-> name]

\* The image files on disk, in the order the directory walk lists them.
InputUniverse ==
    << Path("d1", Name(<<"a">>, "png")),
       Path("d1", Name(<<"a">>, "jpg")),
       Path("d2", Name(<<"a", "1">>, "PNG")) >>

\* What the output directory dialog returns: "" when cancelled, else d1, the
\* folder that also holds two of the images.
OutputDirChoices == {"", "d1"}
QualityChoices == {MinQuality, MaxQuality}

\* The contents the target directories may have before the program starts.
PreExistingChoices ==
    { {},
      {Path("d1", Name(<<"a">>, "webp"))},
      {Path("d1", Name(<<"a">>, "webp")), Path("d1", Name(<<"a", "1">>, "webp"))} }

\* The content of a file that was there before the program started.
OldContent == [by |-> <<0, 0>>]

\* The sub-lists of s (order kept) with at most n elements.
RECURSIVE SubSeqs(_, _)
SubSeqs(s, n) ==
    IF s = <<>> \/ n = 0 THEN {<<>>}
    ELSE SubSeqs(Tail(s), n)
         \cup {<<Head(s)>> \o t : t \in SubSeqs(Tail(s), n - 1)}

FileSelections == SubSeqs(InputUniverse, MaxFiles)

(***************************************************************************)
(* State.                                                                  *)
(***************************************************************************)
VARIABLES
    file_paths,             \* ImageConverter.file_paths
    output_dir,             \* ImageConverter.output_dir
    checkbox,               \* 'Keep ComfyUI workflow' is checked
    same_folder_checkbox,   \* 'Save in same folder as original' is checked
    output_button,          \* 'Browse Output Directory' is enabled
    cpu_spinbox,            \* value of the 'Number of threads' spin box
    quality_slider,         \* value of the quality slider
    convert_button,         \* 'Convert to WebP' is enabled
    progress_label,         \* text of the progress label
    dialogs,                \* the open modal message boxes, innermost last
    cpu_count,              \* multiprocessing.cpu_count() of this machine
    workers,                \* every ConversionWorker created, in order
    signals,                \* the signals emitted to the GUI thread, in order
    delivered,              \* how many of them the GUI thread has handled
    fs,                     \* the output files on disk: path -> content
    images                  \* the input files on disk: path -> img.info

vars == << file_paths, output_dir, checkbox, same_folder_checkbox, output_button,
           cpu_spinbox, quality_slider, convert_button, progress_label, dialogs,
           cpu_count, workers, signals, delivered, fs, images >>

\* The widgets a running conversion leaves alone, the machine and the input
\* files.
widgets == << checkbox, same_folder_checkbox, output_button, cpu_spinbox,
              quality_slider, cpu_count, images >>

(***************************************************************************)
(* os.path and string helpers.                                             *)
(***************************************************************************)
basename(p) == p.name
dirname(p) == p.dir
join(dir, name) == Path(dir, name)
\* os.path.splitext(filename)[0]
splitext0(name) == name.stem
\* os.path.splitext(filename)[0] + '.webp'
WebpName(filename) == Name(splitext0(filename), "webp")
\* f"{base_name}_{counter}.webp"
SuffixedName(base_name, counter) == Name(Append(base_name, ToString(counter)), "webp")
\* str.lower() on the extensions of the model
lower(s) == CASE s = "PNG" -> "png" [] s = "JPG" -> "jpg" [] OTHER -> s
\* A test that takes every image for a PNG.
EndsWithAnyImage(filename) == lower(filename.ext) \in {"png", "jpg"}
\* filename.lower().endswith(".png")
EndsWithPng(filename) == lower(filename.ext) = "png"
\* A resolver that never looks at the disk.
NeverExists(path) == FALSE
\* os.path.exists(path)
exists(path) == path \in DOMAIN fs

\* The share of the tasks that are still to be collected.
PercentRemaining(done, total) == ((total - done) * 100) \div total
\* int((i + 1) / len(futures) * 100); done is i + 1.  The float quotient times
\* 100 truncates to the integer quotient for every total below 100.
Percent(done, total) == (done * 100) \div total

(***************************************************************************)
(* Exceptions, as the text str(e) is built from.                           *)
(***************************************************************************)
\* The error of the library or the operating system.
LibraryError(what) == [text |-> what]
\* 'filename' is not bound yet when Image.open raises: the handler's own
\* f-string raises UnboundLocalError, which replaces the library's error.
UnboundFilename == [text |-> "UnboundLocalError: filename"]
\* f'Failed to convert {filename}: {e}'
FailedToConvert(filename, e) ==
    [text |-> "Failed to convert {filename}: {e}", filename |-> filename, e |-> e]
\* f'Failed to convert {filename} with ComfyUI workflow: {e}'
FailedWithWorkflow(filename, e) ==
    [text |-> "Failed to convert {filename} with ComfyUI workflow: {e}",
     filename |-> filename, e |-> e]
\* f'Failed to convert {filename} with ComfyUI workflow.\nConsider using png files ...'
FailedNotPng(filename) ==
    [text |-> "Failed to convert {filename} with ComfyUI workflow. Consider using png files",
     filename |-> filename]

(***************************************************************************)
(* The metadata of a PNG (lines 128-145).  A text is a record: a text that *)
(* json.loads accepts carries the document it denotes and its layout, so   *)
(* that the text json.dumps writes is not the text that was stored.  A     *)
(* document is a JSON object (dict |-> TRUE), with or without the key      *)
(* 'nodes', or a JSON array.  A node is a JSON object with an id and,      *)
(* usually, a type.                                                        *)
(***************************************************************************)
None == [none |-> TRUE]
PlainText(chars) == [json |-> FALSE, chars |-> chars]
JsonText(doc, layout) == [json |-> TRUE, doc |-> doc, layout |-> layout]

\* json.loads(s): the document, or the exception it raises (TypeError for
\* None, JSONDecodeError for a text that is not JSON).
json_loads(s) ==
    IF s = None \/ ~s.json THEN [raised |-> TRUE] ELSE [raised |-> FALSE, value |-> s.doc]
\* json.dumps(c)
json_dumps(c) == JsonText(c, "json.dumps")

\* dict.get(key), and dict.get(key, default)
get(d, key, default) == IF key \in DOMAIN d THEN d[key] ELSE default

\* list.remove(x): the list without its first element equal to x.
RECURSIVE remove(_, _)
remove(list, x) ==
    IF list = <<>> THEN <<>>
    ELSE IF Head(list) = x THEN Tail(list)
         ELSE <<Head(list)>> \o remove(Tail(list), x)

\* 'for n in nodes: if n['type'] == 'LoraInfo': nodes.remove(n)' (lines
\* 134-136) from the iterator's position i (1 at the start): the iterator
\* moves to the next position of the list as it then is, also after a
\* removal; n['type'] raises KeyError for a node without a type.
RECURSIVE for_n_in_nodes(_, _)
for_n_in_nodes(nodes, i) ==
    IF i > Len(nodes) THEN [raised |-> FALSE, nodes |-> nodes]
    ELSE LET n == nodes[i] IN
         IF "type" \notin DOMAIN n THEN [raised |-> TRUE, nodes |-> nodes]
         ELSE IF n.type = "LoraInfo" THEN for_n_in_nodes(remove(nodes, n), i + 1)
              ELSE for_n_in_nodes(nodes, i + 1)

\* A handler that drops a workflow it cannot filter.
workflow_or_empty(dict_of_info) ==
    LET loaded == json_loads(get(dict_of_info, "workflow", None))
        c == loaded.value
        filtered == for_n_in_nodes(c.nodes, 1)
    IN IF loaded.raised \/ ~c.dict \/ "nodes" \notin DOMAIN c \/ filtered.raised
       THEN [workflow |-> PlainText("")]
       ELSE [dict_of_info EXCEPT !.workflow = json_dumps([c EXCEPT !.nodes = filtered.nodes])]
\* Lines 131-140: dict_of_info after the inner try.  Whatever raises in it
\* (json.loads, c.get on an array, the loop over None, n['type']) is
\* printed and dropped, and dict_of_info['workflow'] keeps the stored text.
workflow_filtered(dict_of_info) ==
    LET loaded == json_loads(get(dict_of_info, "workflow", None))
        c == loaded.value
        filtered == for_n_in_nodes(c.nodes, 1)
    IN IF loaded.raised \/ ~c.dict \/ "nodes" \notin DOMAIN c \/ filtered.raised
       THEN dict_of_info
       ELSE [dict_of_info EXCEPT !.workflow = json_dumps([c EXCEPT !.nodes = filtered.nodes])]

\* Lines 143-145: img_exif[0x010e] = "Workflow:" + user_comment.
ImageDescription(info) ==
    LET dict_of_info == workflow_filtered(info)
        user_comment == get(dict_of_info, "workflow", PlainText(""))
    IN [tag_0x010e |-> [prefix |-> "Workflow:", user_comment |-> user_comment]]

\* The metadata a stored image may carry.
Node(id, type) == IF type = "untyped" THEN [id |-> id] ELSE [id |-> id, type |-> type]
NodeTypes == {"LoraInfo", "KSampler", "untyped"}
NodeLists ==
    UNION { { [i \in 1..n |-> Node(i, types[i])] : types \in [1..n -> NodeTypes] } :
            n \in 0..MaxNodes }
Workflow(nodes) == [dict |-> TRUE, nodes |-> nodes, version |-> "0.4"]
Documents ==
    {Workflow(nodes) : nodes \in NodeLists}
        \cup {[dict |-> TRUE, version |-> "0.4"], [dict |-> FALSE, items |-> <<>>]}
Texts == {PlainText("not json")} \cup {JsonText(doc, "stored") : doc \in Documents}
NoWorkflow == [dpi |-> "72"]
Infos == {NoWorkflow} \cup {[workflow |-> text] : text \in Texts}

\* The images of InputUniverse as they lie on disk: the PNG files carry a
\* ComfyUI workflow, the JPEG carries none.
StoredImages ==
    [p \in {InputUniverse[n] : n \in DOMAIN InputUniverse} |->
        IF lower(p.name.ext) = "png"
        THEN [workflow |-> JsonText(Workflow(<<Node(1, "LoraInfo"), Node(2, "KSampler")>>),
                                    "stored")]
        ELSE NoWorkflow]

(***************************************************************************)
(* Init: the window after ImageConverter.__init__, and the disk.           *)
(***************************************************************************)
Init ==
    /\ file_paths = <<>>
    /\ output_dir = ""
    /\ checkbox = FALSE
    /\ same_folder_checkbox = FALSE
    /\ output_button = TRUE
    /\ cpu_count \in 1..MaxHardwareThreads
    /\ cpu_spinbox = cpu_count
    /\ quality_slider = DefaultQuality
    /\ convert_button = TRUE
    /\ progress_label = [text |-> ""]
    /\ dialogs = <<>>
    /\ workers = <<>>
    /\ signals = <<>>
    /\ delivered = 0
    /\ \E pre \in PreExistingChoices : fs = [p \in pre |-> OldContent]
    /\ images = StoredImages


(***************************************************************************)
(* The user.  A modal message box blocks the window's input.  The model   *)
(* follows the window up to the end of the first conversion it starts: the *)
(* user makes the selections before that conversion, which reads none of   *)
(* them after the ConversionWorker is constructed.                         *)
(***************************************************************************)
Running(w) == workers[w].phase = "running"
WindowAcceptsInput == dialogs = <<>>
NoConversionYet == workers = <<>>
UserMayEdit == WindowAcceptsInput /\ NoConversionYet

\* The user clicks the 'Keep ComfyUI workflow' check box.
ToggleCheckbox ==
    /\ UserMayEdit
    /\ checkbox' = ~checkbox
    /\ UNCHANGED << images, file_paths, output_dir, same_folder_checkbox, output_button,
                    cpu_spinbox, quality_slider, convert_button, progress_label,
                    dialogs, cpu_count, workers, signals, delivered, fs >>

\* The user clicks 'Save in same folder as original': stateChanged calls
\* toggle_output_selection(state).
toggle_output_selection ==
    /\ UserMayEdit
    /\ same_folder_checkbox' = ~same_folder_checkbox
    /\ output_button' = (same_folder_checkbox' = FALSE)
    /\ UNCHANGED << images, file_paths, output_dir, checkbox, cpu_spinbox, quality_slider,
                    convert_button, progress_label, dialogs, cpu_count, workers,
                    signals, delivered, fs >>

\* The user sets the 'Number of threads' spin box, whose range is
\* 1..multiprocessing.cpu_count(), to one of its ends.
SetCpuSpinbox ==
    /\ UserMayEdit
    /\ \E v \in {1, cpu_count} : cpu_spinbox' = v
    /\ UNCHANGED << images, file_paths, output_dir, checkbox, same_folder_checkbox,
                    output_button, quality_slider, cpu_count, convert_button, progress_label,
                    dialogs, workers, signals, delivered, fs >>

\* The user drags the quality slider, whose range is 1..100 (the label that
\* update_quality_label rewrites is not part of the state).
update_quality_label ==
    /\ UserMayEdit
    /\ \E q \in QualityChoices :
          /\ q \in MinQuality..MaxQuality
          /\ quality_slider' = q
    /\ UNCHANGED << images, file_paths, output_dir, checkbox, same_folder_checkbox,
                    output_button, cpu_spinbox, convert_button, progress_label,
                    dialogs, cpu_count, workers, signals, delivered, fs >>

\* 'Browse Images': the dialog's result replaces file_paths, also when it is
\* the empty list of a cancelled dialog.
select_images ==
    /\ UserMayEdit
    /\ \E sel \in FileSelections : file_paths' = sel
    /\ UNCHANGED << output_dir, widgets, convert_button, progress_label, dialogs,
                    workers, signals, delivered, fs >>

\* 'Browse Folder (Recursive)': a cancelled dialog (folder = "") changes
\* nothing; otherwise file_paths is the images the walk finds, possibly none.
select_folder ==
    /\ UserMayEdit
    /\ \E folder \in {"", "chosen"}, found \in FileSelections :
          file_paths' = IF folder = "" THEN file_paths ELSE found
    /\ UNCHANGED << output_dir, widgets, convert_button, progress_label, dialogs,
                    workers, signals, delivered, fs >>

\* 'Browse Output Directory' (disabled while 'same folder' is checked): the
\* dialog's result replaces output_dir, also when it is "" (cancelled).
select_output_directory ==
    /\ UserMayEdit
    /\ output_button
    /\ \E d \in OutputDirChoices : output_dir' = d
    /\ UNCHANGED << file_paths, widgets, convert_button, progress_label, dialogs,
                    workers, signals, delivered, fs >>

(***************************************************************************)
(* ConversionWorker.                                                       *)
(***************************************************************************)
\* A local variable of a task that was not assigned yet: a name, a path, a
\* result or an exception; a directory; a base name.
Unbound == [unbound |-> TRUE]
UnboundDir == "<unbound>"
UnboundStem == <<>>

\* A task submitted to the executor and not picked up by a pool thread yet.
QueuedTask(img_path) ==
    [img_path |-> img_path, pc |-> "queued", filename |-> Unbound,
     output_dir |-> UnboundDir, output_filename |-> Unbound, output_path |-> Unbound,
     base_name |-> UnboundStem, counter |-> 0, result |-> Unbound, exc |-> Unbound,
     img |-> Unbound, img_exif |-> Unbound]

\* ConversionWorker.__init__, and the futures run() has submitted once the
\* thread is started: one per path of file_paths, in order.
NewWorker(paths, dir, quality, keep_workflow, use_same_folder) ==
    [file_paths |-> paths, output_dir |-> dir, quality |-> quality,
     keep_workflow |-> keep_workflow, use_same_folder |-> use_same_folder,
     cpu_count |-> cpu_count,
     futures |-> [k \in 1..Len(paths) |-> QueuedTask(paths[k])],
     renamed_files |-> <<>>, success |-> <<>>, i |-> 0, phase |-> "running"]

\* A validation without the test of the output directory.
AcceptsMissingOutputDir(quality, paths, same_folder, dir) ==
    \/ quality < MinQuality \/ quality > MaxQuality
    \/ paths = <<>>
\* The three validations of convert_images (lines 289-303): the request is
\* refused when one of them shows its warning and returns.
RequestRejected(quality, paths, same_folder, dir) ==
    \/ quality < MinQuality \/ quality > MaxQuality
    \/ paths = <<>>
    \/ (~same_folder /\ dir = "")

\* The QMessageBox.warning of a refused request.
ValidationWarning == [slot |-> "convert_images", worker |-> 0]

\* 'Convert to WebP' is clicked.  Each of the three validations shows a
\* warning and returns; otherwise the button is disabled and a worker is
\* created and started.
convert_images ==
    /\ WindowAcceptsInput
    /\ convert_button
    /\ NoConversionYet
    /\ LET quality == quality_slider
       IN IF RequestRejected(quality, file_paths, same_folder_checkbox, output_dir)
          THEN /\ dialogs' = Append(dialogs, ValidationWarning)
               /\ UNCHANGED << convert_button, progress_label, workers >>
          ELSE /\ convert_button' = FALSE
               /\ progress_label' = [text |-> "Converting..."]
               /\ workers' = Append(workers,
                                NewWorker(file_paths, output_dir, quality, checkbox,
                                          same_folder_checkbox))
               /\ UNCHANGED dialogs
    /\ UNCHANGED << file_paths, output_dir, widgets, signals, delivered, fs >>

(***************************************************************************)
(* The tasks of the ThreadPoolExecutor: convert_single_image and           *)
(* convert_single_image_with_metadata.  A task's steps are the places      *)
(* where it reads or writes the output files: each os.path.exists and the  *)
(* save.  What precedes the first os.path.exists is local to the task and  *)
(* is one step, taken when a pool thread picks the task up.                *)
(***************************************************************************)
Done(t) == t.pc \in {"returned", "raised"}
Executing(t) == t.pc \in {"check", "loop", "save"}
\* The tasks of worker w that pool threads are running.
ExecutingTasks(w) == {k \in DOMAIN workers[w].futures : Executing(workers[w].futures[k])}

\* max_workers=self.cpu_count threads take the work items in submission order.
PoolThreadFree(w, k) ==
    /\ workers[w].futures[k].pc = "queued"
    /\ \A j \in 1..(k - 1) : workers[w].futures[j].pc # "queued"
    /\ Cardinality(ExecutingTasks(w)) < workers[w].cpu_count

Raise(t, e) == [t EXCEPT !.pc = "raised", !.exc = e]

\* A task that writes to self.output_dir whatever use_same_folder says.
OpenAndResolveIgnoresSameFolder(self, t, outcome) ==
    IF outcome = "open fails"
    THEN Raise(t, UnboundFilename)
    ELSE LET filename == basename(t.img_path)
             output_filename == WebpName(filename)
             bound == [t EXCEPT !.img = images[t.img_path], !.filename = filename, !.output_dir = self.output_dir,
                                !.output_filename = output_filename,
                                !.output_path = join(self.output_dir, output_filename)]
         IN IF outcome = "makedirs fails"
            THEN Raise(bound, FailedToConvert(filename, LibraryError("makedirs")))
            ELSE [bound EXCEPT !.pc = "check"]
\* Lines 43-56 (97-110 with metadata): open the image, compute the output
\* path and create the directory.  outcome says what the library and the
\* operating system do.
OpenAndResolve(self, t, outcome) ==
    IF outcome = "open fails"
    THEN Raise(t, UnboundFilename)
    ELSE LET filename == basename(t.img_path)
             output_dir_ == IF self.use_same_folder THEN dirname(t.img_path)
                            ELSE self.output_dir
             output_filename == WebpName(filename)
             output_path == join(output_dir_, output_filename)
             bound == [t EXCEPT !.img = images[t.img_path], !.filename = filename, !.output_dir = output_dir_,
                                !.output_filename = output_filename,
                                !.output_path = output_path]
         IN IF outcome = "makedirs fails"
            THEN Raise(bound, FailedToConvert(filename, LibraryError("makedirs")))
            ELSE [bound EXCEPT !.pc = "check"]

TaskStart(w, k) ==
    /\ Running(w)
    /\ PoolThreadFree(w, k)
    /\ \E outcome \in {"opened", "open fails", "makedirs fails"} :
          workers' = [workers EXCEPT ![w].futures[k] =
                          OpenAndResolve(workers[w], workers[w].futures[k], outcome)]
    /\ UNCHANGED << file_paths, output_dir, widgets, convert_button, progress_label,
                    dialogs, signals, delivered, fs >>

\* A search that starts with 'counter = 0'.
FirstCheckFromZero(t) ==
    IF exists(t.output_path)
    THEN [t EXCEPT !.pc = "loop", !.base_name = splitext0(t.output_filename),
                   !.counter = 0]
    ELSE [t EXCEPT !.pc = "save"]
\* 'if os.path.exists(output_path)' (lines 59-61, 113-115).
FirstCheck(t) ==
    IF exists(t.output_path)
    THEN [t EXCEPT !.pc = "loop", !.base_name = splitext0(t.output_filename),
                   !.counter = 1]
    ELSE [t EXCEPT !.pc = "save"]

TaskCheck(w, k) ==
    /\ Running(w)
    /\ workers[w].futures[k].pc = "check"
    /\ workers' = [workers EXCEPT ![w].futures[k] = FirstCheck(workers[w].futures[k])]
    /\ UNCHANGED << file_paths, output_dir, widgets, convert_button, progress_label,
                    dialogs, signals, delivered, fs >>

\* f"{filename} -> {output_filename}"
RenameRecord(filename, output_filename) == [from |-> filename, to |-> output_filename]

\* A loop body without 'counter += 1'.
NextCandidateSameCounter(t) ==
    LET output_filename == SuffixedName(t.base_name, t.counter)
    IN [t EXCEPT !.output_filename = output_filename,
                 !.output_path = join(t.output_dir, output_filename)]
\* One evaluation of 'while os.path.exists(output_path)' (line 63): the body
\* (lines 64-66) when the path exists, else the exit and line 69.
NextCandidate(t) ==
    LET output_filename == SuffixedName(t.base_name, t.counter)
    IN [t EXCEPT !.output_filename = output_filename,
                 !.output_path = join(t.output_dir, output_filename),
                 !.counter = t.counter + 1]

TaskLoop(w, k) ==
    LET t == workers[w].futures[k] IN
    /\ Running(w)
    /\ t.pc = "loop"
    /\ workers' =
         IF exists(t.output_path)
         THEN [workers EXCEPT ![w].futures[k] = NextCandidate(t)]
         ELSE [workers EXCEPT ![w].futures[k].pc = "save",
                              ![w].renamed_files =
                                  Append(@, RenameRecord(t.filename, t.output_filename))]
    /\ UNCHANGED << file_paths, output_dir, widgets, convert_button, progress_label,
                    dialogs, signals, delivered, fs >>

\* What img.save(output_path, 'webp', quality=...) leaves at output_path.
Written(w, k) == [by |-> <<w, k>>]

\* Lines 72-75, and 126-156 with metadata: the task after the save.  saved says
\* whether the encoder and the disk accept the write.  With metadata the
\* exif of a PNG is built before the save.
SaveResult(self, t, saved) ==
    IF ~self.keep_workflow
    THEN IF saved
         THEN [t EXCEPT !.pc = "returned", !.result = t.output_path]
         ELSE Raise(t, FailedToConvert(t.filename, LibraryError("save")))
    ELSE IF EndsWithPng(t.filename)
         THEN LET tagged == [t EXCEPT !.img_exif = ImageDescription(t.img)] IN
              IF saved
              THEN [tagged EXCEPT !.pc = "returned", !.result = t.output_path]
              ELSE Raise(tagged, FailedToConvert(t.filename,
                               FailedWithWorkflow(t.filename, LibraryError("save"))))
         ELSE Raise(t, FailedToConvert(t.filename, FailedNotPng(t.filename)))

\* What img.convert("RGB").save(..., exif=img_exif) leaves at output_path.
WrittenWithExif(w, k, img_exif) == [by |-> <<w, k>>, exif |-> img_exif]

TaskSave(w, k) ==
    LET t == workers[w].futures[k] IN
    /\ Running(w)
    /\ t.pc = "save"
    /\ \E saved \in BOOLEAN :
         LET after == SaveResult(workers[w], t, saved)
             content == IF workers[w].keep_workflow
                        THEN WrittenWithExif(w, k, after.img_exif)
                        ELSE Written(w, k)
         IN
         /\ workers' = [workers EXCEPT ![w].futures[k] = after]
         /\ fs' = IF after.pc = "returned"
                  THEN [p \in DOMAIN fs \cup {t.output_path} |->
                           IF p = t.output_path THEN content ELSE fs[p]]
                  ELSE fs
    /\ UNCHANGED << file_paths, output_dir, widgets, convert_button, progress_label,
                    dialogs, signals, delivered >>

(***************************************************************************)
(* The worker thread: the loop over the futures (lines 81-87, 162-168)     *)
(* and the end of run().                                                   *)
(***************************************************************************)
ProgressSignal(w, value) == [worker |-> w, signal |-> "progress", value |-> value]
ErrorSignal(w, e) == [worker |-> w, signal |-> "error_signal", message |-> e]
FinishedSignal(w, renamed_files, success) ==
    [worker |-> w, signal |-> "finished_signal", renamed_files |-> renamed_files,
     success |-> success]

\* The signal the loop emits for future number i + 1 (enumerate index i).
CollectSignal(w, i, t, total) ==
    IF t.pc = "returned"
    THEN ProgressSignal(w, Percent(i + 1, total))
    ELSE ErrorSignal(w, t.exc)

\* A loop that stops at the first future that raised.
NextIndexFailFast(i, t, total) == IF t.pc = "raised" THEN total ELSE i + 1
\* enumerate(futures): the index after future number i + 1 was handled,
\* whether future.result() returned or raised.
NextIndex(i, t, total) == i + 1

\* A loop that leaves the last future out.
AllButLastCollected(self) == self.i >= Len(self.futures) - 1
\* The for loop has handled every future.
AllCollected(self) == self.i = Len(self.futures)

\* One iteration of 'for i, future in enumerate(futures)': future.result()
\* returns once the task is done.
Collect(w) ==
    LET self == workers[w]
        i == self.i
        total == Len(self.futures)
    IN /\ Running(w)
       /\ i < total
       /\ Done(self.futures[i + 1])
       /\ LET t == self.futures[i + 1] IN
          /\ workers' = [workers EXCEPT
                             ![w].i = NextIndex(i, t, total),
                             ![w].success = IF t.pc = "returned"
                                            THEN Append(@, t.result) ELSE @]
          /\ signals' = Append(signals, CollectSignal(w, i, t, total))
       /\ UNCHANGED << file_paths, output_dir, widgets, convert_button,
                       progress_label, dialogs, delivered, fs >>

\* The loop is over: the executor shuts down, the method returns and run()
\* emits finished_signal(renamed_files, success).
Finish(w) ==
    LET self == workers[w] IN
    /\ Running(w)
    /\ AllCollected(self)
    /\ workers' = [workers EXCEPT ![w].phase = "finished"]
    /\ signals' = Append(signals, FinishedSignal(w, self.renamed_files, self.success))
    /\ UNCHANGED << file_paths, output_dir, widgets, convert_button, progress_label,
                    dialogs, delivered, fs >>

(***************************************************************************)
(* The GUI thread's slots.  The signals cross threads, so they are queued  *)
(* and handled in the order of emission; a modal message box runs a nested *)
(* event loop, which keeps handling them while the box is open.            *)
(***************************************************************************)
Pending == delivered < Len(signals)
NextSignal == signals[delivered + 1]

update_progress ==
    /\ Pending
    /\ NextSignal.signal = "progress"
    /\ progress_label' = [text |-> "Converting... {value}%", value |-> NextSignal.value]
    /\ delivered' = delivered + 1
    /\ UNCHANGED << file_paths, output_dir, widgets, convert_button, dialogs,
                    workers, signals, fs >>

\* conversion_error up to its QMessageBox.warning.
conversion_error ==
    /\ Pending
    /\ NextSignal.signal = "error_signal"
    /\ dialogs' = Append(dialogs, [slot |-> "conversion_error", worker |-> NextSignal.worker])
    /\ delivered' = delivered + 1
    /\ UNCHANGED << file_paths, output_dir, widgets, convert_button, progress_label,
                    workers, signals, fs >>

\* conversion_finished up to its QMessageBox.information.
conversion_finished ==
    /\ Pending
    /\ NextSignal.signal = "finished_signal"
    /\ dialogs' = Append(dialogs, [slot |-> "conversion_finished", worker |-> NextSignal.worker])
    /\ delivered' = delivered + 1
    /\ UNCHANGED << file_paths, output_dir, widgets, convert_button, progress_label,
                    workers, signals, fs >>

TopDialog == dialogs[Len(dialogs)]

\* The user closes the innermost message box and its slot runs to its end:
\* lines 350-351 of conversion_error, lines 340-346 of conversion_finished,
\* the return after a warning of convert_images.
CloseDialog ==
    /\ dialogs # <<>>
    /\ dialogs' = SubSeq(dialogs, 1, Len(dialogs) - 1)
    /\ IF TopDialog.slot = "convert_images"
       THEN UNCHANGED << progress_label, convert_button, file_paths >>
       ELSE /\ progress_label' = [text |-> ""]
            /\ convert_button' = TRUE
            /\ file_paths' = IF TopDialog.slot = "conversion_finished"
                             THEN <<>> ELSE file_paths
    /\ UNCHANGED << output_dir, widgets, workers, signals, delivered, fs >>

(***************************************************************************)
(* The specification.                                                      *)
(***************************************************************************)
Next ==
    \/ ToggleCheckbox
    \/ toggle_output_selection
    \/ SetCpuSpinbox
    \/ update_quality_label
    \/ select_images
    \/ select_folder
    \/ select_output_directory
    \/ convert_images
    \/ \E w \in DOMAIN workers : \E k \in DOMAIN workers[w].futures : TaskStart(w, k)
    \/ \E w \in DOMAIN workers : \E k \in DOMAIN workers[w].futures : TaskCheck(w, k)
    \/ \E w \in DOMAIN workers : \E k \in DOMAIN workers[w].futures : TaskLoop(w, k)
    \/ \E w \in DOMAIN workers : \E k \in DOMAIN workers[w].futures : TaskSave(w, k)
    \/ \E w \in DOMAIN workers : Collect(w)
    \/ \E w \in DOMAIN workers : Finish(w)
    \/ update_progress
    \/ conversion_error
    \/ conversion_finished
    \/ CloseDialog

Spec == Init /\ [][Next]_vars

(***************************************************************************)
(* The threads of the operating system are scheduled fairly: a pool thread *)
(* that can take or continue a task does, and so does the worker thread.   *)
(* Nothing obliges the user or the GUI thread.                             *)
(***************************************************************************)
WorkerIds == {1}
TaskIds == 1..MaxFiles
TaskStep(w, k) ==
    /\ w \in DOMAIN workers
    /\ k \in DOMAIN workers[w].futures
    /\ TaskStart(w, k) \/ TaskCheck(w, k) \/ TaskLoop(w, k) \/ TaskSave(w, k)
ThreadStep(w) ==
    /\ w \in DOMAIN workers
    /\ Collect(w) \/ Finish(w)

FairSpec ==
    /\ Spec
    /\ \A w \in WorkerIds : WF_vars(ThreadStep(w))
    /\ \A w \in WorkerIds : \A k \in TaskIds : WF_vars(TaskStep(w, k))

(***************************************************************************)
(* Vocabulary of the properties.                                           *)
(***************************************************************************)
Futures(w) == workers[w].futures
Finished(w) == workers[w].phase = "finished"

\* The positions in the signal queue of worker w's signals of one kind.
SignalsOf(w, kind) ==
    {n \in DOMAIN signals : signals[n].worker = w /\ signals[n].signal = kind}

\* The values of the progress signals of worker w among the first n signals,
\* in the order of the queue.
IsProgressOf(w, s) == s.worker = w /\ s.signal = "progress"
RECURSIVE ProgressValues(_, _)
ProgressValues(w, n) ==
    IF n = 0 THEN <<>>
    ELSE IF IsProgressOf(w, signals[n])
         THEN Append(ProgressValues(w, n - 1), signals[n].value)
         ELSE ProgressValues(w, n - 1)

\* os.path.join(output_dir, splitext(basename(img_path))[0] + '.webp'): the
\* first candidate of a task.
Candidate(self, img_path) ==
    join(IF self.use_same_folder THEN dirname(img_path) ELSE self.output_dir,
         WebpName(basename(img_path)))

\* The elements of a list.
Range(s) == {s[n] : n \in DOMAIN s}

(***************************************************************************)
(* The output path resolver alone (lines 52-66, 106-120): a batch of one   *)
(* file has just been started, so nothing else writes, and the target      *)
(* directory holds any of the names the search can try up to the counter   *)
(* MaxSuffix.  The steps are the task's own, up to the save.               *)
(***************************************************************************)
\* The names the search for base in dir tries, up to the counter n.
ChainFiles(dir, base, n) ==
    {join(dir, Name(base, "webp"))} \cup {join(dir, SuffixedName(base, c)) : c \in 1..n}

ResolverInit ==
    /\ \E p \in Range(InputUniverse) : file_paths = <<p>>
    /\ same_folder_checkbox \in BOOLEAN
    /\ output_button = ~same_folder_checkbox
    /\ output_dir = IF same_folder_checkbox THEN "" ELSE "d1"
    /\ checkbox \in BOOLEAN
    /\ cpu_count = 1
    /\ cpu_spinbox = cpu_count
    /\ quality_slider = DefaultQuality
    /\ convert_button = FALSE
    /\ progress_label = [text |-> "Converting..."]
    /\ dialogs = <<>>
    /\ workers = << NewWorker(file_paths, output_dir, quality_slider, checkbox,
                              same_folder_checkbox) >>
    /\ signals = <<>>
    /\ delivered = 0
    /\ LET first == Candidate(workers[1], file_paths[1])
       IN \E pre \in SUBSET ChainFiles(first.dir, splitext0(first.name), MaxSuffix) :
             fs = [q \in pre |-> OldContent]
    /\ images = StoredImages

ResolverNext ==
    \/ \E w \in DOMAIN workers : \E k \in DOMAIN workers[w].futures : TaskStart(w, k)
    \/ \E w \in DOMAIN workers : \E k \in DOMAIN workers[w].futures : TaskCheck(w, k)
    \/ \E w \in DOMAIN workers : \E k \in DOMAIN workers[w].futures : TaskLoop(w, k)

ResolverSpec == ResolverInit /\ [][ResolverNext]_vars

(***************************************************************************)
(* The metadata of one PNG alone (lines 126-149): a batch of one PNG with  *)
(* 'Keep ComfyUI workflow' has just been started, the target directory is  *)
(* empty, and the PNG carries any of the metadata of Infos.                *)
(***************************************************************************)
MetadataInit ==
    /\ \E p \in {q \in Range(InputUniverse) : lower(q.name.ext) = "png"} :
          /\ file_paths = <<p>>
          /\ \E info \in Infos : images = [StoredImages EXCEPT ![p] = info]
    /\ same_folder_checkbox \in BOOLEAN
    /\ output_button = ~same_folder_checkbox
    /\ output_dir = IF same_folder_checkbox THEN "" ELSE "d1"
    /\ checkbox = TRUE
    /\ cpu_count = 1
    /\ cpu_spinbox = cpu_count
    /\ quality_slider = DefaultQuality
    /\ convert_button = FALSE
    /\ progress_label = [text |-> "Converting..."]
    /\ dialogs = <<>>
    /\ workers = << NewWorker(file_paths, output_dir, quality_slider, checkbox,
                              same_folder_checkbox) >>
    /\ signals = <<>>
    /\ delivered = 0
    /\ fs = [q \in {} |-> OldContent]

MetadataNext ==
    \/ \E w \in DOMAIN workers : \E k \in DOMAIN workers[w].futures : TaskStart(w, k)
    \/ \E w \in DOMAIN workers : \E k \in DOMAIN workers[w].futures : TaskCheck(w, k)
    \/ \E w \in DOMAIN workers : \E k \in DOMAIN workers[w].futures : TaskSave(w, k)

MetadataSpec == MetadataInit /\ [][MetadataNext]_vars

(***************************************************************************)
(* C1.  The result handed over with the terminal notification holds        *)
(* exactly one outcome per input path: as many outcomes as the batch has   *)
(* inputs, whatever subset of the inputs fails.  The result of             *)
(* finished_signal is (renamed_files, success), and its outcomes are the   *)
(* entries of success.                                                     *)
(***************************************************************************)
C1_OneOutcomePerInput ==
    \A n \in DOMAIN signals :
        signals[n].signal = "finished_signal" =>
            Len(signals[n].success) = Len(workers[signals[n].worker].file_paths)

(***************************************************************************)
(* C2.  No two tasks of one batch write to the same output path: the       *)
(* output paths of the tasks that returned are pairwise distinct.          *)
(***************************************************************************)
C2_DistinctOutputPaths ==
    \A w \in DOMAIN workers : \A j, k \in DOMAIN Futures(w) :
        (j # k /\ Futures(w)[j].pc = "returned" /\ Futures(w)[k].pc = "returned")
            => Futures(w)[j].result # Futures(w)[k].result

(***************************************************************************)
(* C3.  A file that exists in a target directory before the batch starts   *)
(* is never written or replaced: no step changes the content of such a     *)
(* file, and a task whose first candidate path is such a file returns a    *)
(* different path.                                                         *)
(***************************************************************************)
PreExistingKept ==
    \A p \in DOMAIN fs :
        fs[p] = OldContent => (p \in DOMAIN fs' /\ fs'[p] = OldContent)

RenamedAwayFromOld ==
    \A w \in DOMAIN workers : \A k \in DOMAIN Futures(w) :
        LET t == Futures(w)[k]
            first == Candidate(workers[w], t.img_path)
        IN (t.pc = "returned" /\ first \in DOMAIN fs /\ fs[first] = OldContent)
               => (t.result # first /\ fs[t.result] # OldContent)

C3_PreExistingNeverWritten == [][PreExistingKept]_vars /\ []RenamedAwayFromOld

\* A task has returned a suffixed path beside the pre-existing file that
\* holds its first candidate path.
C3_Witness ==
    \E w \in DOMAIN workers : \E k \in DOMAIN Futures(w) :
        LET t == Futures(w)[k]
            first == Candidate(workers[w], t.img_path)
        IN /\ t.pc = "returned"
           /\ first \in DOMAIN fs /\ fs[first] = OldContent
           /\ t.result # first
           /\ fs[t.result].by = <<w, k>>

(***************************************************************************)
(* C4.  Each input path is attempted exactly once, whatever the other      *)
(* inputs do: when the batch has ended there is one task per input path    *)
(* and every one of them has run to its end, and a task that was taken up  *)
(* never returns to the queue nor changes once it is done.                 *)
(***************************************************************************)
AllAttempted ==
    \A w \in DOMAIN workers :
        Finished(w) =>
            /\ Len(Futures(w)) = Len(workers[w].file_paths)
            /\ \A k \in DOMAIN Futures(w) :
                  /\ Futures(w)[k].img_path = workers[w].file_paths[k]
                  /\ Done(Futures(w)[k])

NeverRetried ==
    \A w \in DOMAIN workers : \A k \in DOMAIN Futures(w) :
        /\ Futures(w)[k].pc # "queued" => workers'[w].futures[k].pc # "queued"
        /\ Done(Futures(w)[k]) => workers'[w].futures[k] = Futures(w)[k]

C4_EachInputAttemptedOnce == []AllAttempted /\ [][NeverRetried]_vars

\* A batch has ended in which an earlier task failed and a later one
\* succeeded.
C4_Witness ==
    \E w \in DOMAIN workers : \E j, k \in DOMAIN Futures(w) :
        /\ Finished(w)
        /\ j < k
        /\ Futures(w)[j].pc = "raised"
        /\ Futures(w)[k].pc = "returned"

(***************************************************************************)
(* C5.  For a batch of N inputs, exactly N progress notifications precede  *)
(* the terminal notification, one per completed task whether it succeeded  *)
(* or failed, and the j-th carries the truncation of j / N * 100.          *)
(***************************************************************************)
C5_OneProgressPerTask ==
    \A n \in DOMAIN signals :
        signals[n].signal = "finished_signal" =>
            LET w == signals[n].worker
                total == Len(workers[w].file_paths)
            IN ProgressValues(w, n) = [j \in 1..total |-> Percent(j, total)]

(***************************************************************************)
(* C6.  Within one batch the progress percentages are non-decreasing in    *)
(* the order in which the GUI thread receives them, and each lies in       *)
(* 0..100.                                                                 *)
(***************************************************************************)
C6_ProgressNonDecreasing ==
    \A w \in DOMAIN workers :
        LET received == ProgressValues(w, delivered) IN
        /\ \A a, b \in DOMAIN received : a < b => received[a] <= received[b]
        /\ \A a \in DOMAIN received : received[a] \in 0..100

\* The GUI thread has received two progress percentages of one batch.
C6_Witness ==
    \E w \in DOMAIN workers : Len(ProgressValues(w, delivered)) >= 2

(***************************************************************************)
(* C7.  Each batch emits exactly one terminal notification, only after     *)
(* every task has completed, and no progress or per-file notification of   *)
(* the batch follows it.                                                   *)
(***************************************************************************)
C7_OneTerminalLast ==
    \A w \in DOMAIN workers :
        LET terminal == SignalsOf(w, "finished_signal") IN
        /\ Cardinality(terminal) <= 1
        /\ Finished(w) => Cardinality(terminal) = 1
        /\ \A n \in terminal :
              /\ \A k \in DOMAIN Futures(w) : Done(Futures(w)[k])
              /\ signals[n].success = workers[w].success
              /\ \A m \in DOMAIN signals : signals[m].worker = w => m <= n

\* A terminal notification that follows a progress notification and a
\* per-file error of its batch.
C7_Witness ==
    \E w \in DOMAIN workers :
        /\ SignalsOf(w, "finished_signal") # {}
        /\ SignalsOf(w, "progress") # {}
        /\ SignalsOf(w, "error_signal") # {}

(***************************************************************************)
(* C8.  Under fair scheduling of the threads every started batch runs to   *)
(* completion: the collision-suffix searches end, every task completes and *)
(* the terminal notification is emitted.                                   *)
(***************************************************************************)
Started(w) == w \in DOMAIN workers
Completed(w) ==
    /\ Started(w)
    /\ \A k \in DOMAIN Futures(w) : Done(Futures(w)[k])
    /\ SignalsOf(w, "finished_signal") # {}

C8_BatchCompletes == \A w \in WorkerIds : Started(w) ~> Completed(w)

\* A completed batch one of whose tasks searched past the suffix _1.
C8_Witness ==
    \E w \in DOMAIN workers : \E k \in DOMAIN Futures(w) :
        /\ Completed(w)
        /\ Futures(w)[k].counter >= 3
        /\ Futures(w)[k].pc = "returned"

(***************************************************************************)
(* C9.  At every moment of a batch the number of conversion tasks running  *)
(* simultaneously is at most the value of 'Number of threads' chosen for   *)
(* the request (the spin box is not changed once the batch has started).   *)
(***************************************************************************)
C9_PoolSizedToRequest ==
    \A w \in DOMAIN workers :
        Running(w) => Cardinality(ExecutingTasks(w)) <= cpu_spinbox

(***************************************************************************)
(* C10.  With 'Keep ComfyUI workflow' an input whose name does not end in  *)
(* .png (in any case) never succeeds and no file is written for it; its    *)
(* failure is reported, and when the batch has ended every other input     *)
(* has been attempted as well.                                             *)
(***************************************************************************)
NotPngTasks(w) ==
    {k \in DOMAIN Futures(w) :
        workers[w].keep_workflow /\ basename(Futures(w)[k].img_path).ext \notin {"png", "PNG"}}

C10_NonPngFails ==
    \A w \in DOMAIN workers : \A k \in NotPngTasks(w) :
        /\ Futures(w)[k].pc # "returned"
        /\ \A p \in DOMAIN fs : fs[p].by # <<w, k>>
        /\ \A n \in SignalsOf(w, "finished_signal") :
              Futures(w)[k].result \notin {signals[n].success[j] : j \in DOMAIN signals[n].success}
        /\ Finished(w) =>
              /\ Futures(w)[k].pc = "raised"
              /\ \E n \in SignalsOf(w, "error_signal") : signals[n].message = Futures(w)[k].exc
              /\ \A j \in DOMAIN Futures(w) : Done(Futures(w)[j])

\* A batch with 'Keep ComfyUI workflow' has ended: its .jpg input was
\* refused as not being a PNG, and another input was converted.
C10_Witness ==
    \E w \in DOMAIN workers : \E k \in NotPngTasks(w) : \E j \in DOMAIN Futures(w) :
        /\ Finished(w)
        /\ Futures(w)[k].exc =
               FailedToConvert(Futures(w)[k].filename, FailedNotPng(Futures(w)[k].filename))
        /\ Futures(w)[j].pc = "returned"

(***************************************************************************)
(* C11.  A request with an empty input list, a quality outside 1..100, or  *)
(* no output directory while 'save in same folder' is unchecked is         *)
(* rejected before dispatch: no ConversionWorker is created, no file is    *)
(* written and the Convert button stays enabled; every worker that exists  *)
(* was made from a request that has none of these defects.  A request that *)
(* has none of them, with quality 1 and 100 in particular, is not refused: *)
(* no warning opens for it.                                                *)
(***************************************************************************)
InvalidRequest ==
    \/ file_paths = <<>>
    \/ quality_slider \notin 1..100
    \/ (~same_folder_checkbox /\ output_dir = "")

RejectedBeforeDispatch ==
    /\ (NoConversionYet /\ InvalidRequest) =>
           (workers' = <<>> /\ fs' = fs /\ convert_button /\ convert_button')
    /\ (NoConversionYet /\ ~InvalidRequest /\ dialogs = <<>>) => dialogs' = <<>>

DispatchedWereValid ==
    \A w \in DOMAIN workers :
        /\ workers[w].file_paths # <<>>
        /\ workers[w].quality \in 1..100
        /\ workers[w].use_same_folder \/ workers[w].output_dir # ""

C11_InvalidRequestRejected == [][RejectedBeforeDispatch]_vars /\ []DispatchedWereValid

\* A request with files but no output directory was refused: its warning is
\* open, no worker exists and the Convert button is enabled.
C11_Witness ==
    /\ dialogs # <<>>
    /\ TopDialog = ValidationWarning
    /\ file_paths # <<>>
    /\ ~same_folder_checkbox /\ output_dir = ""
    /\ workers = <<>>
    /\ convert_button

(***************************************************************************)
(* C12.  A RenameRecord is emitted for an input if and only if the         *)
(* collision policy changed its output name, at most one per input, and    *)
(* the record pairs the output filename first computed (the input's base   *)
(* name with extension .webp) with the filename finally chosen: when the   *)
(* batch has ended, renamed_files holds exactly one such pair for each     *)
(* task whose output filename is not the one first computed.               *)
(***************************************************************************)
\* The tasks of worker w whose output filename the collision policy changed.
RenamedTasks(w) ==
    {k \in DOMAIN Futures(w) :
        /\ Futures(w)[k].filename # Unbound
        /\ Futures(w)[k].output_filename # WebpName(basename(Futures(w)[k].img_path))}

C12_RenameRecordPairsOutputNames ==
    \A w \in DOMAIN workers :
        Finished(w) =>
            /\ Len(workers[w].renamed_files) = Cardinality(RenamedTasks(w))
            /\ \A k \in RenamedTasks(w) :
                  \E n \in DOMAIN workers[w].renamed_files :
                      workers[w].renamed_files[n] =
                          [from |-> WebpName(basename(Futures(w)[k].img_path)),
                           to |-> Futures(w)[k].output_filename]

(***************************************************************************)
(* The batch run by one pool thread, as a function of its inputs: the      *)
(* files present beforehand, the paths in order, and what the library and  *)
(* the disk did to each task.  The reference of C13.                       *)
(***************************************************************************)
\* The files that were on disk before the batch.
FilesBefore == {p \in DOMAIN fs : fs[p] = OldContent}

\* What the library and the disk did to a task that has ended.
OutcomeOf(t) ==
    CASE t.filename = Unbound -> "open fails"
      [] t.pc = "raised" /\ t.exc.e = LibraryError("makedirs") -> "makedirs fails"
      [] t.pc = "returned" -> "saved"
      [] OTHER -> "not saved"

\* The name the collision policy gives base in dir when files are present
\* and nothing else writes: base.webp, or base_k.webp for the least k >= 1
\* that is free.
FreeName(files, dir, base) ==
    IF join(dir, Name(base, "webp")) \notin files
    THEN Name(base, "webp")
    ELSE LET free(k) == join(dir, SuffixedName(base, k)) \notin files
         IN SuffixedName(base, CHOOSE k \in 1..(Cardinality(files) + 1) :
                                   free(k) /\ \A j \in 1..(k - 1) : ~free(j))

\* The result of tasks 1..n run one after the other.
RECURSIVE OneByOne(_, _)
OneByOne(w, n) ==
    IF n = 0
    THEN [files |-> FilesBefore, renamed |-> {}, success |-> {}, failed |-> {}]
    ELSE LET before == OneByOne(w, n - 1)
             t == Futures(w)[n]
             first == Candidate(workers[w], t.img_path)
             name == FreeName(before.files, first.dir, splitext0(first.name))
             resolved == OutcomeOf(t) \in {"saved", "not saved"}
             record == [from |-> basename(t.img_path), to |-> name]
         IN [files |-> IF OutcomeOf(t) = "saved"
                       THEN before.files \cup {join(first.dir, name)}
                       ELSE before.files,
             renamed |-> IF resolved /\ name # first.name
                         THEN before.renamed \cup {record} ELSE before.renamed,
             success |-> IF OutcomeOf(t) = "saved"
                         THEN before.success \cup {join(first.dir, name)}
                         ELSE before.success,
             failed |-> IF OutcomeOf(t) = "saved"
                        THEN before.failed ELSE before.failed \cup {n}]

\* The result of the batch as it ran.
ResultOf(w) ==
    [renamed |-> Range(workers[w].renamed_files),
     success |-> Range(workers[w].success),
     failed |-> {k \in DOMAIN Futures(w) : Futures(w)[k].pc = "raised"}]

SameAsOneByOne(w) ==
    LET one == OneByOne(w, Len(Futures(w)))
    IN ResultOf(w) = [renamed |-> one.renamed, success |-> one.success,
                      failed |-> one.failed]

\* The first candidates of the inputs are pairwise different.
CandidatesDiffer(w) ==
    \A j, k \in DOMAIN Futures(w) :
        j # k => Candidate(workers[w], Futures(w)[j].img_path)
                    # Candidate(workers[w], Futures(w)[k].img_path)

\* No path that the collision policy can try for one input can be tried for
\* another: the directories differ, or the base names differ and neither is
\* the other with a counter appended.
Chained(s, t) == s = t \/ (Len(t) = Len(s) + 1 /\ SubSeq(t, 1, Len(s)) = s)
ChainsApart(w) ==
    \A j, k \in DOMAIN Futures(w) :
        j # k =>
            LET a == Candidate(workers[w], Futures(w)[j].img_path)
                b == Candidate(workers[w], Futures(w)[k].img_path)
            IN a.dir # b.dir
               \/ (~Chained(a.name.stem, b.name.stem) /\ ~Chained(b.name.stem, a.name.stem))

(***************************************************************************)
(* C13.  For a batch of independent inputs (pairwise different resolved    *)
(* output candidates) the pool of more than one thread produces, in every  *)
(* interleaving, the result that one thread produces: the same written     *)
(* paths, the same failures and the same RenameRecords, order aside.       *)
(***************************************************************************)
C13_SameResultAsOneThread ==
    \A w \in DOMAIN workers :
        (Finished(w) /\ CandidatesDiffer(w)) => SameAsOneByOne(w)

(***************************************************************************)
(* C13, amended.  The same for a batch whose inputs cannot try a common    *)
(* path (different directories, or base names that are not one another     *)
(* with a counter appended); and a pool of one thread produces the         *)
(* one-by-one result for every batch.                                      *)
(***************************************************************************)
C13_SameResultWhenChainsApart ==
    \A w \in DOMAIN workers :
        Finished(w) =>
            /\ workers[w].cpu_count = 1 => SameAsOneByOne(w)
            /\ ChainsApart(w) => SameAsOneByOne(w)

\* A batch of two inputs in different directories has ended on a pool of
\* two threads: both were converted and one was renamed.
C13_Witness ==
    \E w \in DOMAIN workers :
        /\ Finished(w)
        /\ workers[w].cpu_count >= 2
        /\ Len(Futures(w)) >= 2
        /\ ChainsApart(w)
        /\ Len(workers[w].success) >= 2
        /\ workers[w].renamed_files # <<>>

(***************************************************************************)
(* C14.  The output path resolver, run with no concurrent writer, returns  *)
(* the input's base name with extension .webp in the target directory when *)
(* that path does not exist, and otherwise base_k.webp for the smallest    *)
(* k >= 1 such that base_k.webp does not exist; the path it returns does   *)
(* not exist, whatever files the directory holds.                          *)
(***************************************************************************)
C14_ResolverReturnsFirstFree ==
    \A w \in DOMAIN workers : \A k \in DOMAIN Futures(w) :
        LET t == Futures(w)[k]
            first == Candidate(workers[w], t.img_path)
            base == splitext0(basename(t.img_path))
            taken(c) == join(first.dir, SuffixedName(base, c)) \in DOMAIN fs
        IN t.pc = "save" =>
              /\ t.output_path \notin DOMAIN fs
              /\ first \notin DOMAIN fs => t.output_path = first
              /\ first \in DOMAIN fs =>
                    \E c \in 1..(Cardinality(DOMAIN fs) + 1) :
                        /\ t.output_path = join(first.dir, SuffixedName(base, c))
                        /\ \A j \in 1..(c - 1) : taken(j)

\* The resolver has returned base_1.webp although base_2.webp is taken: the
\* least free counter, not the one after the last file.
C14_Witness ==
    \E w \in DOMAIN workers : \E k \in DOMAIN Futures(w) :
        LET t == Futures(w)[k]
            first == Candidate(workers[w], t.img_path)
            base == splitext0(basename(t.img_path))
        IN /\ t.pc = "save"
           /\ first \in DOMAIN fs
           /\ join(first.dir, SuffixedName(base, 2)) \in DOMAIN fs
           /\ t.output_path = join(first.dir, SuffixedName(base, 1))

(***************************************************************************)
(* C15.  On any per-file failure, in either mode and at whatever step it   *)
(* occurs, the failure reported for that input identifies the input file   *)
(* and includes the text of the original underlying error, and no          *)
(* exception escapes uncaught: every message of error_signal names a file  *)
(* of the batch and carries the error that caused it, and when the batch   *)
(* has ended every task that raised has been reported.                     *)
(***************************************************************************)
C15_FailureNamesInputAndCause ==
    \A w \in DOMAIN workers :
        /\ \A n \in SignalsOf(w, "error_signal") :
              LET message == signals[n].message IN
              /\ "filename" \in DOMAIN message
              /\ message.filename \in {basename(p) : p \in Range(workers[w].file_paths)}
              /\ "e" \in DOMAIN message
        /\ Finished(w) =>
              Cardinality(SignalsOf(w, "error_signal"))
                  = Cardinality({k \in DOMAIN Futures(w) : Futures(w)[k].pc = "raised"})

(***************************************************************************)
(* C16.  With 'Keep ComfyUI workflow', whenever the PNG's workflow field   *)
(* is present and JSON-parseable, the workflow text embedded in the output *)
(* contains no node of type LoraInfo and keeps every other node in its     *)
(* original order, for every list of at most MaxNodes nodes and every      *)
(* arrangement of LoraInfo and other nodes in it.  The formula states it   *)
(* for the workflows that hold a list of nodes each of which has a type.   *)
(***************************************************************************)
NotLoraInfo(n) == ~("type" \in DOMAIN n /\ n.type = "LoraInfo")

\* The info of a PNG holds a workflow that parses to an object with a list
\* of nodes, and every node has a type.
HasNodes(info) ==
    /\ "workflow" \in DOMAIN info
    /\ info.workflow.json
    /\ info.workflow.doc.dict
    /\ "nodes" \in DOMAIN info.workflow.doc
    /\ \A i \in DOMAIN info.workflow.doc.nodes : "type" \in DOMAIN info.workflow.doc.nodes[i]

\* The tasks with metadata that have written their output.
WrittenWithMetadata(w) ==
    {k \in DOMAIN Futures(w) : workers[w].keep_workflow /\ Futures(w)[k].pc = "returned"}

C16_LoraInfoNodesRemoved ==
    \A w \in DOMAIN workers : \A k \in WrittenWithMetadata(w) :
        LET t == Futures(w)[k]
            embedded == fs[t.result].exif.tag_0x010e.user_comment
        IN HasNodes(t.img) =>
              /\ embedded.json
              /\ embedded.doc.nodes = SelectSeq(t.img.workflow.doc.nodes, NotLoraInfo)

(***************************************************************************)
(* C17.  With 'Keep ComfyUI workflow', a workflow field that is not valid  *)
(* JSON, or whose list of nodes is missing, never makes the conversion of  *)
(* a PNG fail: the task fails only when the library or the disk refuses    *)
(* the directory or the save, and the output it writes embeds 'Workflow:'  *)
(* followed by the stored workflow text, unmodified.                       *)
(***************************************************************************)
Unfilterable(info) ==
    /\ "workflow" \in DOMAIN info
    /\ \/ ~info.workflow.json
       \/ ~info.workflow.doc.dict
       \/ "nodes" \notin DOMAIN info.workflow.doc

C17_BadWorkflowKeptRaw ==
    \A w \in DOMAIN workers : \A k \in DOMAIN Futures(w) :
        LET t == Futures(w)[k] IN
        (workers[w].keep_workflow /\ t.img # Unbound /\ Unfilterable(t.img)
            /\ t.img_path.name.ext \in {"png", "PNG"}) =>
            /\ t.pc = "raised" =>
                  t.exc \in { FailedToConvert(t.filename, LibraryError("makedirs")),
                              FailedToConvert(t.filename,
                                  FailedWithWorkflow(t.filename, LibraryError("save"))) }
            /\ t.pc = "returned" =>
                  /\ t.result \in DOMAIN fs
                  /\ fs[t.result].exif =
                         [tag_0x010e |-> [prefix |-> "Workflow:",
                                          user_comment |-> t.img.workflow]]

\* A PNG whose workflow is not JSON has been converted.
C17_Witness ==
    \E w \in DOMAIN workers : \E k \in WrittenWithMetadata(w) :
        /\ "workflow" \in DOMAIN Futures(w)[k].img
        /\ ~Futures(w)[k].img.workflow.json
        /\ fs[Futures(w)[k].result].by = <<w, k>>

(***************************************************************************)
(* C18.  At most one batch runs at a time: from the moment a batch is      *)
(* started until its finished notification has been handled, the Convert   *)
(* button stays disabled and no second ConversionWorker can be started.    *)
(* A worker is started by a click on the enabled button of a window that   *)
(* takes input, and by nothing else, so the formula says that no such      *)
(* click is possible while a batch is under way.                           *)
(***************************************************************************)
\* The batch of worker w has started and conversion_finished has not run to
\* its end for it.
UnderWay(w) ==
    \/ Running(w)
    \/ \E n \in SignalsOf(w, "finished_signal") : n > delivered
    \/ \E d \in DOMAIN dialogs :
          dialogs[d].slot = "conversion_finished" /\ dialogs[d].worker = w

C18_OneBatchAtATime ==
    \A w \in DOMAIN workers :
        UnderWay(w) => ~(convert_button /\ WindowAcceptsInput)

(***************************************************************************)
(* C19.  Every RenameRecord in a batch's result belongs to a Success       *)
(* outcome of the same batch whose output path has the renamed filename:   *)
(* no rename is reported for an input whose conversion failed and wrote no *)
(* file, in both modes.  The result is what finished_signal carries.       *)
(***************************************************************************)
C19_RenamesBelongToSuccesses ==
    \A n \in DOMAIN signals :
        signals[n].signal = "finished_signal" =>
            \A r \in DOMAIN signals[n].renamed_files :
                \E j \in DOMAIN signals[n].success :
                    basename(signals[n].success[j]) = signals[n].renamed_files[r].to

=============================================================================
